---- MODULE Spec2Model ----
(***************************************************************************)
(* Model of the download / validation / auto-repair core of                *)
(* software_manager_v3.py: FileValidator, AutoCorrector.                   *)
(*                                                                         *)
(* Python strings are sequences of one-character strings.  An optional     *)
(* value (None, or a missing dictionary key) is a sequence of length 0 or  *)
(* 1: None == << >>, Some(x) == << x >>.                                   *)
(***************************************************************************)
EXTENDS Integers, Sequences, FiniteSets, TLC

VARIABLES
    \* ---- FileValidator called directly (pure-function specification)
    v_file,        \* the file at file_path: None or Some([size, digest])
    v_hash,        \* expected_hash argument: None or Some(string)
    v_size,        \* expected_size argument: None or Some(int)
    v_io,          \* which I/O operations fail during this call
    v_res,         \* None before the call, Some(outcome) after it
    v_hres,        \* None, or Some(outcome of calculate_file_hash)
    \* ---- AutoCorrector._generate_filename called directly
    g_info,        \* the software_info record
    g_res,         \* None, or Some(filename)
    \* ---- AutoCorrector.auto_correct_download
    rec,           \* software_info: [named, hash, size]
    max_retries,   \* argument max_retries
    disk,          \* the file at file_path: None or Some([size, digest])
    pc,            \* position in auto_correct_download
    attempt,       \* loop variable
    getCount,      \* HTTP GET requests issued by the current call
    ret,           \* None, or Some(outcome) of the latest call that finished
    calls,         \* number of invocations started so far
    preInvalid,    \* this attempt found an existing file that failed validation
    lastVal,       \* None, or Some([res, file, hash, size]): the latest validation
                   \* of the current attempt
    wroteSinceVal, \* the file was written or removed after lastVal was taken
    waited,        \* seconds slept by time.sleep in the current call
    \* ---- SoftwareDownloader.download_software
    b_list,        \* argument software_list: a sequence of names
    b_data,        \* argument software_data: name -> record
    b_path,        \* correct_path_issues accepts download_path
    b_cb,          \* a progress_callback is supplied
    b_pc,          \* position in download_software
    b_i,           \* index of the next entry of software_list
    b_results,     \* local results
    b_completed,   \* local completed_count
    b_log,         \* the invocations of progress_callback, in order
    b_ret,         \* None, or Some(outcome) of download_software
    \* ---- V3 wizard: download progress page, its worker threads, event loop
    w_page,        \* current_page: "progress" (DOWNLOAD_PROGRESS) or "other"
    w_completed,   \* download_completed
    w_timer,       \* root.after(500, start_download_process) is pending
    w_destroyed,   \* one entry per generation of per-item widgets destroyed
                   \* so far: what destroyed it ("page" or "retry")
    w_attr,        \* item -> None, or Some(generation) of the widgets that
                   \* the attributes progress_<name> / status_<name> refer to
    w_queue,       \* callbacks scheduled with root.after(0, ...), in order
    w_workers,     \* the _perform_download threads started so far
    w_errors,      \* exceptions raised by callbacks inside the event loop
    \* ---- enhanced GUI: download_software / start_download / download_thread
    is_downloading,\* self.is_downloading
    e_threads,     \* the download_thread threads started so far
    e_modal,       \* a messagebox opened by the main thread is showing
    e_requests,    \* presses of the download button so far
    e_refused,     \* presses answered with "正在下载中，请稍候..."
    \* ---- V3 wizard: validation page and auto-repair
    r_core,        \* self.core_manager is set
    r_expected,    \* len(self.selected_software)
    r_files,       \* target files added to the download directory
    r_pc,          \* what the validation page is about to do
    r_attempted,   \* the attribute auto_repair_attempted exists
    r_validations, \* runs of _perform_validation so far
    r_downloads,   \* re-downloads made through the core manager
    \* ---- two records of one batch resolved to target paths
    p_a,           \* software_info of one record
    p_b,           \* software_info of another record
    p_res,         \* None, or Some(<< filename of p_a, filename of p_b >>)
    \* ---- V3 wizard: a catalog entry loaded and its download validated
    c_entry,       \* the entry of software_data.json: [size, checksum]
    c_body,        \* the content the server delivers
    c_io,          \* which I/O operations fail during the validation
    c_res,         \* None, or Some(outcome of the validation of the download)
    \* ---- a record downloaded, then checked by validate_existing_downloads
    x_info,        \* software_info: [filename, name, url, hash, size]
    x_file,        \* the file at file_path when auto_correct_download returns
    x_dl,          \* None, or Some(outcome of auto_correct_download)
    x_re,          \* None, or Some(entry of validate_existing_downloads)
    \* ---- the step flags and the selection of the V3 wizard
    s_page,        \* current_page
    s_selected,    \* selected_software
    s_software_selected,\* software_selected
    s_category,    \* current_category, None or a category key
    s_agreed,      \* agreement_accepted and privacy_accepted
    s_path_set,    \* download_path_set
    s_checked,     \* connectivity_checked
    s_completed,   \* download_completed
    s_validated    \* validation_completed

vars == << v_file, v_hash, v_size, v_io, v_res, v_hres, g_info, g_res,
           rec, max_retries, disk, pc, attempt, getCount, ret, calls,
           preInvalid, lastVal, wroteSinceVal, waited,
           b_list, b_data, b_path, b_cb, b_pc, b_i, b_results, b_completed,
           b_log, b_ret,
           w_page, w_completed, w_timer, w_destroyed, w_attr, w_queue,
           w_workers, w_errors,
           is_downloading, e_threads, e_modal, e_requests, e_refused,
           r_core, r_expected, r_files, r_pc, r_attempted, r_validations, r_downloads,
           p_a, p_b, p_res,
           c_entry, c_body, c_io, c_res,
           x_info, x_file, x_dl, x_re,
           s_page, s_selected, s_software_selected, s_category, s_agreed, s_path_set, s_checked, s_completed, s_validated >>

valVars  == << v_file, v_hash, v_size, v_io, v_res, v_hres >>
genVars  == << g_info, g_res >>
mainVars == << rec, max_retries, disk, pc, attempt, getCount, ret, calls,
               preInvalid, lastVal, wroteSinceVal, waited >>

batchVars == << b_list, b_data, b_path, b_cb, b_pc, b_i, b_results,
                b_completed, b_log, b_ret >>

wizVars == << w_page, w_completed, w_timer, w_destroyed, w_attr, w_queue,
              w_workers, w_errors >>

enhVars == << is_downloading, e_threads, e_modal, e_requests, e_refused >>

repVars == << r_core, r_expected, r_files, r_pc, r_attempted, r_validations, r_downloads >>

pairVars == << p_a, p_b, p_res >>

catVars == << c_entry, c_body, c_io, c_res >>

revVars == << x_info, x_file, x_dl, x_re >>

selVars == << s_page, s_selected, s_software_selected, s_category, s_agreed, s_path_set, s_checked, s_completed, s_validated >>

\* the variables each specification leaves alone
notValVars   == << genVars, mainVars, batchVars, wizVars, enhVars, repVars, pairVars, catVars, revVars, selVars >>
notGenVars   == << valVars, mainVars, batchVars, wizVars, enhVars, repVars, pairVars, catVars, revVars, selVars >>
notMainVars  == << valVars, genVars, batchVars, wizVars, enhVars, repVars, pairVars, catVars, revVars, selVars >>
notBatchVars == << valVars, genVars, mainVars, wizVars, enhVars, repVars, pairVars, catVars, revVars, selVars >>
notWizVars   == << valVars, genVars, mainVars, batchVars, enhVars, repVars, pairVars, catVars, revVars, selVars >>
notEnhVars   == << valVars, genVars, mainVars, batchVars, wizVars, repVars, pairVars, catVars, revVars, selVars >>
notRepVars == << valVars, genVars, mainVars, batchVars, wizVars, enhVars, pairVars, catVars, revVars, selVars >>
notPairVars == << valVars, genVars, mainVars, batchVars, wizVars, enhVars, repVars, catVars, revVars, selVars >>
notCatVars == << valVars, genVars, mainVars, batchVars, wizVars, enhVars, repVars, pairVars, revVars, selVars >>
notRevVars == << valVars, genVars, mainVars, batchVars, wizVars, enhVars, repVars, pairVars, catVars, selVars >>
notSelVars == << valVars, genVars, mainVars, batchVars, wizVars, enhVars, repVars, pairVars, catVars, revVars >>

----------------------------------------------------------------------------
(* Bounds *)

MaxRetriesBound == 3      \* max_retries ranges over 0..MaxRetriesBound
MaxCalls == 2             \* invocations of auto_correct_download per run
MaxFileSize == 2          \* file sizes range over 0..MaxFileSize
MaxSegs == 3              \* URL paths are built from at most MaxSegs tokens

----------------------------------------------------------------------------
(* Optional values and strings *)

None == << >>
Some(x) == << x >>
IsNone(o) == Len(o) = 0
Val(o) == o[1]

UpperChars == << "A", "B", "C", "D", "E", "F", "G", "H", "I", "J", "K", "L", "M",
                 "N", "O", "P", "Q", "R", "S", "T", "U", "V", "W", "X", "Y", "Z" >>
LowerChars == << "a", "b", "c", "d", "e", "f", "g", "h", "i", "j", "k", "l", "m",
                 "n", "o", "p", "q", "r", "s", "t", "u", "v", "w", "x", "y", "z" >>
DigitChars == << "0", "1", "2", "3", "4", "5", "6", "7", "8", "9" >>

Range(s) == { s[i] : i \in 1..Len(s) }

\* str.lower() on one character
LowerChar(c) ==
    IF \E i \in 1..26 : UpperChars[i] = c
    THEN LowerChars[CHOOSE i \in 1..26 : UpperChars[i] = c]
    ELSE c

\* str.lower()
Lower(s) == [ i \in 1..Len(s) |-> LowerChar(s[i]) ]

\* str.isalpha() / str.isalnum() on one (ASCII) character
IsAlpha(c) == c \in Range(UpperChars) \cup Range(LowerChars)
IsAlnum(c) == IsAlpha(c) \/ c \in Range(DigitChars)

\* `sub in s` for strings
Contains(s, sub) ==
    \E i \in 0..(Len(s) - Len(sub)) : SubSeq(s, i + 1, i + Len(sub)) = sub

\* s.endswith(suf)
EndsWith(s, suf) ==
    /\ Len(suf) <= Len(s)
    /\ SubSeq(s, Len(s) - Len(suf) + 1, Len(s)) = suf

----------------------------------------------------------------------------
(* FileValidator *)

\* outcomes of a call
Raise == [ kind |-> "raise", ok |-> FALSE, reason |-> "" ]
Return(ok, reason) == [ kind |-> "return", ok |-> ok, reason |-> reason ]

\* reason strings of validate_file_integrity
MsgNotExist == "file does not exist"          \* "文件不存在"
MsgSizeMismatch == "file size mismatch"       \* "文件大小不匹配: ..."
MsgHashMismatch == "file hash mismatch"       \* "文件哈希不匹配: ..."
MsgIntact == "file intact"                    \* "文件完整"
MsgValidateFailed == "file validation failed" \* "文件验证失败: {e}"

\* The I/O operations of one validation, each of which may fail:
\*   exists : Path.exists() raises (OSError other than ENOENT/ENOTDIR, e.g.
\*            EACCES or ENAMETOOLONG)
\*   stat   : Path.stat() raises
\*   hash   : open()/read() inside calculate_file_hash raises
\*   read   : open()/read(1024) of the readability probe raises
IoOutcomes == [ exists : BOOLEAN, stat : BOOLEAN, hash : BOOLEAN, read : BOOLEAN ]
IoOk == [ exists |-> FALSE, stat |-> FALSE, hash |-> FALSE, read |-> FALSE ]

\* a variant that lets a failed read go unnoticed and reports the digest anyway
calculate_file_hash_IgnoreError(file, io) ==
    IF IsNone(file)
    THEN [ raised |-> FALSE, digest |-> << >> ]
    ELSE [ raised |-> FALSE, digest |-> Val(file).digest ]

\* calculate_file_hash: the hex digest, or "" when opening/reading fails;
\* the except clause covers the whole body, so nothing is raised.
\* (file is optional: opening a missing file fails like any other I/O error)
calculate_file_hash(file, io) ==
    IF io.hash \/ IsNone(file)
    THEN [ raised |-> FALSE, digest |-> << >> ]
    ELSE [ raised |-> FALSE, digest |-> Val(file).digest ]

\* the hash check of lines 133-136, inside the try block
HashCheck(file, expected_hash, io) ==
    LET h == calculate_file_hash(Some(file), io)
    IN  IF h.raised THEN "raise"
        ELSE IF Lower(h.digest) # Lower(Val(expected_hash)) THEN "mismatch"
        ELSE "pass"

\* Python truthiness of expected_hash: None and "" are false
HashGiven(expected_hash) ==
    ~IsNone(expected_hash) /\ Len(Val(expected_hash)) > 0

\* a variant that trusts a matching size and skips the hash comparison
ValidateBody_SkipHashOnSize(file, expected_hash, expected_size, io) ==
    IF ~IsNone(expected_size) /\ io.stat
        THEN Return(FALSE, MsgValidateFailed)
    ELSE IF ~IsNone(expected_size) /\ file.size # Val(expected_size)
        THEN Return(FALSE, MsgSizeMismatch)
    ELSE IF IsNone(expected_size) /\ HashGiven(expected_hash)
                /\ HashCheck(file, expected_hash, io) = "mismatch"
        THEN Return(FALSE, MsgHashMismatch)
    ELSE IF io.read
        THEN Return(FALSE, MsgValidateFailed)
    ELSE Return(TRUE, MsgIntact)

\* the body of the try block, lines 125-145
ValidateBody(file, expected_hash, expected_size, io) ==
    IF ~IsNone(expected_size) /\ io.stat
        THEN Return(FALSE, MsgValidateFailed)
    ELSE IF ~IsNone(expected_size) /\ file.size # Val(expected_size)
        THEN Return(FALSE, MsgSizeMismatch)
    ELSE IF HashGiven(expected_hash) /\ HashCheck(file, expected_hash, io) = "raise"
        THEN Return(FALSE, MsgValidateFailed)
    ELSE IF HashGiven(expected_hash) /\ HashCheck(file, expected_hash, io) = "mismatch"
        THEN Return(FALSE, MsgHashMismatch)
    ELSE IF io.read
        THEN Return(FALSE, MsgValidateFailed)
    ELSE Return(TRUE, MsgIntact)

\* validate_file_integrity: the existence test of line 122 is outside the try
validate_file_integrity(file, expected_hash, expected_size, io) ==
    IF io.exists THEN Raise
    ELSE IF IsNone(file) THEN Return(FALSE, MsgNotExist)
    ELSE ValidateBody(Val(file), expected_hash, expected_size, io)

----------------------------------------------------------------------------
(* Input domains *)

\* hexdigest() is always lower case
Digests == { << "a", "b" >>, << "c", "d" >>, << "1", "f" >> }
FileContents == [ size : 0..MaxFileSize, digest : Digests ]
Files == { None } \cup { Some(c) : c \in FileContents }

ExpectedHashes == { None, Some(<< >>), Some(<< "a", "b" >>), Some(<< "A", "b" >>),
                    Some(<< "C", "D" >>), Some(<< "e", "e" >>) }
ExpectedSizes == { None } \cup { Some(n) : n \in 0..MaxFileSize }

----------------------------------------------------------------------------
(* Specification SpecValidator: FileValidator called on arbitrary inputs *)

MainIdle ==
    /\ rec = [ named |-> TRUE, hash |-> None, size |-> None ]
    /\ max_retries = 0
    /\ disk = None
    /\ pc = "off"
    /\ attempt = 0
    /\ getCount = 0
    /\ ret = None
    /\ calls = 0
    /\ preInvalid = FALSE
    /\ lastVal = None
    /\ wroteSinceVal = FALSE
    /\ waited = 0

ValIdle ==
    /\ v_file = None
    /\ v_hash = None
    /\ v_size = None
    /\ v_io = IoOk
    /\ v_res = None
    /\ v_hres = None

GenIdle ==
    /\ g_info = [ filename |-> None, name |-> None, url |-> None ]
    /\ g_res = None

BatchIdle ==
    /\ b_list = << >>
    /\ b_data = << >>
    /\ b_path = TRUE
    /\ b_cb = FALSE
    /\ b_pc = "off"
    /\ b_i = 1
    /\ b_results = << >>
    /\ b_completed = 0
    /\ b_log = << >>
    /\ b_ret = None

WizIdle ==
    /\ w_page = "other"
    /\ w_completed = FALSE
    /\ w_timer = FALSE
    /\ w_destroyed = << >>
    /\ w_attr = << >>
    /\ w_queue = << >>
    /\ w_workers = << >>
    /\ w_errors = { }

EnhIdle ==
    /\ is_downloading = FALSE
    /\ e_threads = << >>
    /\ e_modal = FALSE
    /\ e_requests = 0
    /\ e_refused = 0

RepIdle ==
    /\ r_core = FALSE
    /\ r_expected = 0
    /\ r_files = 0
    /\ r_pc = "off"
    /\ r_attempted = FALSE
    /\ r_validations = 0
    /\ r_downloads = 0

PairIdle ==
    /\ p_a = [ filename |-> None, name |-> None, url |-> None ]
    /\ p_b = [ filename |-> None, name |-> None, url |-> None ]
    /\ p_res = None

CatIdle ==
    /\ c_entry = [ size |-> None, checksum |-> None ]
    /\ c_body = [ size |-> 0, digest |-> << "a", "b" >> ]
    /\ c_io = IoOk
    /\ c_res = None

RevIdle ==
    /\ x_info = [ filename |-> None, name |-> None, url |-> None, hash |-> None, size |-> None ]
    /\ x_file = None
    /\ x_dl = None
    /\ x_re = None

SelIdle ==
    /\ s_page = "WELCOME"
    /\ s_selected = { }
    /\ s_software_selected = FALSE
    /\ s_category = << >>
    /\ s_agreed = FALSE
    /\ s_path_set = FALSE
    /\ s_checked = FALSE
    /\ s_completed = FALSE
    /\ s_validated = FALSE

\* the specifications of the callers of AutoCorrector are idle
ExtIdle == BatchIdle /\ WizIdle /\ EnhIdle /\ RepIdle /\ PairIdle /\ CatIdle /\ RevIdle /\ SelIdle

InitValidator ==
    /\ v_file \in Files
    /\ v_hash \in ExpectedHashes
    /\ v_size \in ExpectedSizes
    /\ v_io \in IoOutcomes
    /\ v_res = None
    /\ v_hres = None
    /\ MainIdle
    /\ GenIdle
    /\ ExtIdle

\* a caller runs validate_file_integrity(file_path, expected_hash, expected_size)
ValidateCall ==
    /\ v_res = None
    /\ v_res' = Some(validate_file_integrity(v_file, v_hash, v_size, v_io))
    /\ UNCHANGED << v_file, v_hash, v_size, v_io, v_hres, notValVars >>

\* a caller runs calculate_file_hash(file_path)
HashCall ==
    /\ v_hres = None
    /\ v_hres' = Some(calculate_file_hash(v_file, v_io))
    /\ UNCHANGED << v_file, v_hash, v_size, v_io, v_res, notValVars >>

NextValidator == ValidateCall \/ HashCall

SpecValidator == InitValidator /\ [][NextValidator]_vars

----------------------------------------------------------------------------
(* Properties of FileValidator, checked under SpecValidator *)

\* the file's digest differs from a non-empty expected hash, ignoring case
DigestDiffers(file, expected_hash) ==
    /\ ~IsNone(file)
    /\ HashGiven(expected_hash)
    /\ Lower(Val(file).digest) # Lower(Val(expected_hash))

\* the size check of lines 127-130 lets the file through
SizePasses(file, expected_size, io) ==
    IsNone(expected_size) \/ (~io.stat /\ Val(file).size = Val(expected_size))

\* the hash check of lines 133-136 lets the file through
HashPasses(file, expected_hash, io) ==
    ~HashGiven(expected_hash)
        \/ (~io.hash /\ Lower(Val(file).digest) = Lower(Val(expected_hash)))

\* C4 (as stated, restricted to calls in which no I/O operation fails): an
\* existing file whose digest differs from the non-empty expected hash is
\* rejected with the hash-mismatch message, whatever its size.
C4_Original ==
    (~IsNone(v_res) /\ v_io = IoOk /\ DigestDiffers(v_file, v_hash))
        => /\ Val(v_res).kind = "return"
           /\ ~Val(v_res).ok
           /\ Val(v_res).reason = MsgHashMismatch

\* C4 (amended): an existing file whose digest differs from the non-empty
\* expected hash is never accepted, whatever its size; the message names the
\* hash mismatch when the size check passed, and the size mismatch (which is
\* checked first) when an expected size is given and differs.
C4_HashMismatchRejected ==
    (~IsNone(v_res) /\ DigestDiffers(v_file, v_hash))
        => /\ ~Val(v_res).ok
           /\ (Val(v_res).kind = "return" /\ SizePasses(v_file, v_size, v_io))
                 => Val(v_res).reason = MsgHashMismatch
           /\ (Val(v_res).kind = "return" /\ ~IsNone(v_size) /\ ~v_io.stat
                 /\ Val(v_file).size # Val(v_size))
                 => Val(v_res).reason = MsgSizeMismatch

\* a hash mismatch reported on a file whose size equals the expected size
C4_Witness ==
    /\ ~IsNone(v_res)
    /\ DigestDiffers(v_file, v_hash)
    /\ ~IsNone(v_size)
    /\ Val(v_file).size = Val(v_size)
    /\ Val(v_res).reason = MsgHashMismatch

\* C5: validate_file_integrity returns ok exactly when the file exists, the
\* size check passes, the hash check passes and the first 1 KB can be read;
\* in every other case it returns not-ok.
C5_OkExactlyWhen ==
    ~IsNone(v_res)
        => /\ Val(v_res).kind = "return"
           /\ Val(v_res).ok <=> /\ ~IsNone(v_file)
                                /\ SizePasses(v_file, v_size, v_io)
                                /\ HashPasses(v_file, v_hash, v_io)
                                /\ ~v_io.read

\* C6: validate_file_integrity never raises; it returns a pair with a
\* non-empty reason, whatever I/O operation fails.
C6_NeverRaises ==
    ~IsNone(v_res)
        => /\ Val(v_res).kind = "return"
           /\ Val(v_res).reason # ""

\* C7: calculate_file_hash returns "" and raises nothing when opening or
\* reading the file fails, and a file whose hashing fails is never accepted
\* when a non-empty expected hash is given.
C7_HashFailureEmpty ==
    /\ (~IsNone(v_hres) /\ (v_io.hash \/ IsNone(v_file)))
          => /\ ~Val(v_hres).raised
             /\ Val(v_hres).digest = << >>
    /\ (~IsNone(v_res) /\ v_io.hash /\ HashGiven(v_hash))
          => ~Val(v_res).ok

\* hashing failed on an existing file that would otherwise have been accepted
C7_Witness ==
    /\ ~IsNone(v_res)
    /\ ~IsNone(v_hres)
    /\ v_io = [ exists |-> FALSE, stat |-> FALSE, hash |-> TRUE, read |-> FALSE ]
    /\ ~IsNone(v_file)
    /\ HashGiven(v_hash)
    /\ Lower(Val(v_file).digest) = Lower(Val(v_hash))
    /\ SizePasses(v_file, v_size, v_io)
    /\ Val(v_res).reason = MsgHashMismatch
    /\ Val(v_hres).digest = << >>

----------------------------------------------------------------------------
(* AutoCorrector._generate_filename *)

\* common_extensions, line 202
common_extensions ==
    << << ".", "e", "x", "e" >>, << ".", "m", "s", "i" >>, << ".", "z", "i", "p" >>, << ".", "r", "a", "r" >>, << ".", "7", "z" >>, << ".", "d", "m", "g" >>, << ".", "p", "k", "g" >>, << ".", "d", "e", "b" >>, << ".", "r", "p", "m" >> >>

StrBuiltin == << "b", "u", "i", "l", "t", "i", "n" >>
StrUnknown == << "u", "n", "k", "n", "o", "w", "n" >>

\* least index i >= from with s[i] in set, or Len(s) + 1
FirstIndex(s, set, from) ==
    IF \E i \in from..Len(s) : s[i] \in set
    THEN CHOOSE i \in from..Len(s) :
            /\ s[i] \in set
            /\ \A j \in from..(i - 1) : s[j] \notin set
    ELSE Len(s) + 1

\* greatest index i with s[i] = c, or 0
LastIndex(s, c) ==
    IF \E i \in 1..Len(s) : s[i] = c
    THEN CHOOSE i \in 1..Len(s) : s[i] = c /\ \A j \in (i + 1)..Len(s) : s[j] # c
    ELSE 0

\* urllib.parse: characters allowed in a scheme
SchemeChar(c) == IsAlnum(c) \/ c \in { "+", "-", "." }

\* urlsplit: the scheme is the text before the first ':' when it starts with a
\* letter and holds only scheme characters
SchemeEnd(url) ==
    LET i == FirstIndex(url, { ":" }, 1)
    IN  IF /\ i <= Len(url)
           /\ i > 1
           /\ IsAlpha(url[1])
           /\ \A j \in 1..(i - 1) : SchemeChar(url[j])
        THEN i
        ELSE 0

\* schemes for which urlparse splits ";params" off the path (uses_params)
UsesParams == { << >>, << "h", "t", "t", "p" >>, << "h", "t", "t", "p", "s" >>, << "f", "t", "p" >> }

\* urlparse(url).path: drop "scheme:", drop "//netloc", cut at '?' or '#',
\* then cut ";params" off the last path segment
UrlPath(url) ==
    LET se     == SchemeEnd(url)
        scheme == Lower(SubSeq(url, 1, se - 1))
        r1     == SubSeq(url, se + 1, Len(url))
        r2     == IF Len(r1) >= 2 /\ r1[1] = "/" /\ r1[2] = "/"
                  THEN SubSeq(r1, FirstIndex(r1, { "/", "?", "#" }, 3), Len(r1))
                  ELSE r1
        p      == SubSeq(r2, 1, FirstIndex(r2, { "?", "#" }, 1) - 1)
        semi   == FirstIndex(p, { ";" }, LastIndex(p, "/") + 1)
    IN  IF scheme \in UsesParams /\ ";" \in Range(url)
        THEN SubSeq(p, 1, semi - 1)
        ELSE p

\* os.path.basename (posixpath): the text after the last '/'
Basename(path) == SubSeq(path, LastIndex(path, "/") + 1, Len(path))

\* lines 203-207: the first entry of common_extensions found in url_path.lower()
FoundExt(url_path) ==
    IF \E k \in 1..Len(common_extensions) :
            Contains(Lower(url_path), common_extensions[k])
    THEN Some(common_extensions[
            CHOOSE k \in 1..Len(common_extensions) :
                /\ Contains(Lower(url_path), common_extensions[k])
                /\ \A m \in 1..(k - 1) :
                      ~Contains(Lower(url_path), common_extensions[m]) ])
    ELSE None

\* a variant that drops every non-alphanumeric character instead
SafeName_Strip(software_name) == SelectSeq(software_name, IsAlnum)

\* lines 210 and 220: characters other than alphanumerics and "._- " become "_"
SafeName(software_name) ==
    [ i \in 1..Len(software_name) |->
        IF IsAlnum(software_name[i]) \/ software_name[i] \in { ".", "_", "-", " " }
        THEN software_name[i]
        ELSE "_" ]

\* line 197: the basename of the URL path is taken as the file name
BasenameUsable(basename) == Len(basename) > 0 /\ "." \in Range(basename)

\* _generate_filename, lines 181-222
generate_filename(software_info) ==
    IF ~IsNone(software_info.filename) /\ Len(Val(software_info.filename)) > 0
    THEN Val(software_info.filename)
    ELSE
      LET software_name == IF IsNone(software_info.name) THEN StrUnknown
                           ELSE Val(software_info.name)
          url           == IF IsNone(software_info.url) THEN << >>
                           ELSE Val(software_info.url)
          url_path      == UrlPath(url)
          basename      == Basename(url_path)
          found_ext     == FoundExt(url_path)
      IN  IF Len(url) > 0 /\ url # StrBuiltin
          THEN IF BasenameUsable(basename)
               THEN basename
               ELSE IF ~IsNone(found_ext)
                    THEN SafeName(software_name) \o Val(found_ext)
                    ELSE SafeName(software_name) \o common_extensions[1]
          ELSE SafeName(software_name) \o common_extensions[1]

----------------------------------------------------------------------------
(* Specification SpecFilename: _generate_filename called on arbitrary records *)

PathTokens == { << "/" >>, << "a" >>, << "." >>, << ".", "7", "z" >>, << ".", "R", "A", "R" >> }

RECURSIVE PathsOf(_)
PathsOf(n) ==
    IF n = 0 THEN { << >> }
    ELSE PathsOf(n - 1) \cup { p \o t : p \in PathsOf(n - 1), t \in PathTokens }

UrlPrefixes == { << >>, << "h", "t", "t", "p", ":", "/", "/", "h" >> }
UrlSuffixes == { << >>, << "?", "q", ".", "z", "i", "p" >>, << ";", "p", ".", "z", "i", "p" >> }

Urls ==
    { None, Some(<< >>), Some(StrBuiltin) }
        \cup { Some(a \o p \o z) : a \in UrlPrefixes, p \in PathsOf(MaxSegs), z \in UrlSuffixes }

Names == { None, Some(<< >>), Some(<< "A", "p", "p" >>), Some(<< "a", "/", "b", " ", "c" >>) }
Filenames == { None, Some(<< >>), Some(<< "f", ".", "e", "x", "e" >>), Some(<< "s", "e", "t", "u", "p" >>) }

Infos == [ filename : Filenames, name : Names, url : Urls ]

InitFilename ==
    /\ g_info \in Infos
    /\ g_res = None
    /\ MainIdle
    /\ ValIdle
    /\ ExtIdle

\* a caller runs _generate_filename(software_info)
GenerateCall ==
    /\ g_res = None
    /\ g_res' = Some(generate_filename(g_info))
    /\ UNCHANGED << g_info, notGenVars >>

NextFilename == GenerateCall

SpecFilename == InitFilename /\ [][NextFilename]_vars

----------------------------------------------------------------------------
(* Properties of _generate_filename, checked under SpecFilename *)

\* the name has an extension: a '.' followed by at least one character
HasExtension(f) == \E i \in 1..(Len(f) - 1) : f[i] = "."

\* the name ends in one of the allow-listed extensions
EndsAllowListed(f) ==
    \E k \in 1..Len(common_extensions) : EndsWith(f, common_extensions[k])

\* the record's URL is missing or empty, or its path has no basename with an
\* extension
NoUsableUrl(info) ==
    \/ IsNone(info.url)
    \/ Len(Val(info.url)) = 0
    \/ ~HasExtension(Basename(UrlPath(Val(info.url))))

ExplicitFilename(info) == ~IsNone(info.filename) /\ Len(Val(info.filename)) > 0

\* C9 (for records without an explicit filename field): a record whose URL
\* is missing, empty or without a usable basename gets a filename ending in
\* an allow-listed extension, and no record gets a filename without an
\* extension.
C9_AlwaysExtension ==
    (~IsNone(g_res) /\ ~ExplicitFilename(g_info))
        => /\ HasExtension(Val(g_res))
           /\ NoUsableUrl(g_info) => EndsAllowListed(Val(g_res))

\* C10: an explicit non-empty filename is returned unchanged; otherwise the
\* URL path's basename is the result exactly when it has a file extension;
\* otherwise the result is the sanitized software name plus an allow-listed
\* extension.
C10_Precedence ==
    ~IsNone(g_res) =>
        LET software_name == IF IsNone(g_info.name) THEN StrUnknown
                             ELSE Val(g_info.name)
            derived == { SafeName(software_name) \o common_extensions[k] :
                            k \in 1..Len(common_extensions) }
        IN  IF ExplicitFilename(g_info)
            THEN Val(g_res) = Val(g_info.filename)
            ELSE IF ~NoUsableUrl(g_info)
            THEN Val(g_res) = Basename(UrlPath(Val(g_info.url)))
            ELSE Val(g_res) \in derived

\* the record takes the name-derived branch of lines 200-221
NameDerived(info) ==
    /\ ~ExplicitFilename(info)
    /\ \/ IsNone(info.url)
       \/ Len(Val(info.url)) = 0
       \/ Val(info.url) = StrBuiltin
       \/ Len(Basename(UrlPath(Val(info.url)))) = 0
       \/ "." \notin Range(Basename(UrlPath(Val(info.url))))

NameOf(info) == IF IsNone(info.name) THEN StrUnknown ELSE Val(info.name)
PathOf(info) == IF IsNone(info.url) THEN << >> ELSE UrlPath(Val(info.url))

\* e is the first entry of the allow-list (in list order) that occurs in the
\* lower-cased URL path, or ".exe" when no entry occurs
IsGuessedExt(e, path) ==
    \/ \E k \in 1..Len(common_extensions) :
          /\ e = common_extensions[k]
          /\ Contains(Lower(path), common_extensions[k])
          /\ \A m \in 1..(k - 1) : ~Contains(Lower(path), common_extensions[m])
    \/ /\ e = << ".", "e", "x", "e" >>
       /\ \A k \in 1..Len(common_extensions) :
             ~Contains(Lower(path), common_extensions[k])

----------------------------------------------------------------------------
(* AutoCorrector.auto_correct_download *)

MsgCorrected == "corrected"                 \* "纠错成功"
MsgExhausted == "still failing after max_retries attempts"
                                            \* "经过 {max_retries} 次尝试后仍然失败"

\* software_info.get('size'): None when the key is missing or holds null
get_size(software_info) ==
    IF IsNone(software_info.size) THEN None ELSE Val(software_info.size)

\* software_info.get('size', 0): 0 when the key is missing
get_size_or_0(software_info) ==
    IF IsNone(software_info.size) THEN Some(0) ELSE Val(software_info.size)

\* records: 'name' present or not, 'hash', and 'size' missing / null / a number
MainHashes == { None, Some(<< >>), Some(<< "A", "b" >>) }
MainContents == [ size : 0..MaxFileSize, digest : { << "a", "b" >>, << "c", "d" >> } ]
MainFiles == { None } \cup { Some(c) : c \in MainContents }
SizeFields == { None, Some(None) } \cup { Some(Some(n)) : n \in 0..MaxFileSize }
Records == [ named : BOOLEAN, hash : MainHashes, size : SizeFields ]

\* a variant of the loop bound that runs one attempt too many
LoopContinues_OffByOne(a, m) == a <= m

\* for attempt in range(max_retries), line 230
LoopContinues(a, m) == a < m

\* a variant that takes any returned validation result as valid
Accepts_Any(res) == res.kind = "return"

\* a variant that inverts the test
Accepts_Inverted(res) == res.kind = "return" /\ ~res.ok

\* `if is_valid:`, lines 242 and 265
Accepts(res) == res.kind = "return" /\ res.ok

\* a variant of unlink that leaves the file in place without raising
Unlinked_Keep(file) == file

\* file_path.unlink(missing_ok=True) that succeeded, line 248
Unlinked(file) == None

\* a variant that also sleeps after the last attempt
BackoffSeconds_AlsoAfterLast(a, m) == 2 ^ a

\* lines 277-278: if attempt < max_retries - 1: time.sleep(2 ** attempt)
BackoffSeconds(a, m) == IF a < m - 1 THEN 2 ^ a ELSE 0

InitMain ==
    /\ rec \in Records
    /\ max_retries = 0
    /\ disk \in MainFiles
    /\ pc = "idle"
    /\ attempt = 0
    /\ getCount = 0
    /\ ret = None
    /\ calls = 0
    /\ preInvalid = FALSE
    /\ lastVal = None
    /\ wroteSinceVal = FALSE
    /\ waited = 0
    /\ ValIdle
    /\ GenIdle
    /\ ExtIdle

\* auto_correct_download(software_info, download_path, max_retries) is entered
\* (lines 224-228)
Call ==
    /\ pc = "idle"
    /\ calls < MaxCalls
    /\ \E m \in 0..MaxRetriesBound : max_retries' = m
    /\ calls' = calls + 1
    /\ attempt' = 0
    /\ getCount' = 0
    /\ preInvalid' = FALSE
    /\ lastVal' = None
    /\ wroteSinceVal' = FALSE
    /\ waited' = 0
    /\ pc' = "loop"
    /\ UNCHANGED << rec, disk, ret, notMainVars >>

\* the loop test of line 230, the log line 231 (software_info['name'] raises
\* KeyError outside the try), and the final return of line 280
LoopHead ==
    /\ pc = "loop"
    /\ IF LoopContinues(attempt, max_retries)
       THEN IF rec.named
            THEN /\ pc' = "precheck"
                 /\ ret' = ret
            ELSE /\ pc' = "done"
                 /\ ret' = Some(Raise)
       ELSE /\ pc' = "done"
            /\ ret' = Some(Return(FALSE, MsgExhausted))
    /\ preInvalid' = FALSE
    /\ lastVal' = None
    /\ wroteSinceVal' = FALSE
    /\ UNCHANGED << rec, max_retries, disk, attempt, getCount, calls,
                    waited, notMainVars >>

\* lines 235-248: an existing file is validated; a valid one ends the call,
\* an invalid one is unlinked.  Any exception goes to the except of line 273.
PreCheck ==
    /\ pc = "precheck"
    /\ \E existsRaises \in BOOLEAN, unlinkRaises \in BOOLEAN, io \in IoOutcomes :
         IF existsRaises
         THEN /\ pc' = "backoff"
              /\ UNCHANGED << disk, ret, preInvalid, lastVal, wroteSinceVal >>
         ELSE IF IsNone(disk)
         THEN /\ pc' = "get"
              /\ UNCHANGED << disk, ret, preInvalid, lastVal, wroteSinceVal >>
         ELSE LET res == validate_file_integrity(disk, rec.hash, get_size(rec), io)
              IN  /\ lastVal' = Some([ res |-> res, file |-> disk,
                                       hash |-> rec.hash, size |-> get_size(rec) ])
                  /\ IF res.kind = "raise"
                     THEN /\ pc' = "backoff"
                          /\ wroteSinceVal' = FALSE
                          /\ UNCHANGED << disk, ret, preInvalid >>
                     ELSE IF Accepts(res)
                     THEN /\ pc' = "done"
                          /\ ret' = Some(Return(TRUE, MsgIntact))
                          /\ wroteSinceVal' = FALSE
                          /\ UNCHANGED << disk, preInvalid >>
                     ELSE /\ preInvalid' = TRUE
                          /\ ret' = ret
                          /\ IF unlinkRaises
                             THEN /\ pc' = "backoff"
                                  /\ disk' = disk
                                  /\ wroteSinceVal' = FALSE
                             ELSE /\ pc' = "get"
                                  /\ disk' = Unlinked(disk)
                                  /\ wroteSinceVal' = TRUE
    /\ UNCHANGED << rec, max_retries, attempt, getCount, calls, waited, notMainVars >>

\* _download_file, lines 287-288: requests.get and raise_for_status
HttpGet ==
    /\ pc = "get"
    /\ getCount' = getCount + 1
    /\ \E ok \in BOOLEAN : pc' = IF ok THEN "write" ELSE "backoff"
    /\ UNCHANGED << rec, max_retries, disk, attempt, ret, calls, preInvalid,
                    lastVal, wroteSinceVal, waited, notMainVars >>

\* _download_file, lines 291-312: mkdir, open(file_path, 'wb'), the chunk
\* loop and the size comparison (which raises TypeError on a null size)
WriteFile ==
    /\ pc = "write"
    /\ \E how \in { "open_fails", "partial", "complete" }, c \in MainContents :
         CASE how = "open_fails" ->
                /\ pc' = "backoff"
                /\ UNCHANGED << disk, wroteSinceVal >>
           [] how = "partial" ->
                /\ pc' = "backoff"
                /\ disk' = Some(c)
                /\ wroteSinceVal' = TRUE
           [] how = "complete" ->
                /\ pc' = IF IsNone(get_size_or_0(rec)) THEN "backoff" ELSE "postval"
                /\ disk' = Some(c)
                /\ wroteSinceVal' = TRUE
    /\ UNCHANGED << rec, max_retries, attempt, getCount, ret, calls, preInvalid,
                    lastVal, waited, notMainVars >>

\* lines 257-269: the downloaded file is validated
PostValidate ==
    /\ pc = "postval"
    /\ \E io \in IoOutcomes :
         LET res == validate_file_integrity(disk, rec.hash, get_size(rec), io)
         IN  /\ lastVal' = Some([ res |-> res, file |-> disk,
                                  hash |-> rec.hash, size |-> get_size(rec) ])
             /\ wroteSinceVal' = FALSE
             /\ IF Accepts(res)
                THEN /\ pc' = "done"
                     /\ ret' = Some(Return(TRUE, MsgCorrected))
                ELSE /\ pc' = "backoff"
                     /\ ret' = ret
    /\ UNCHANGED << rec, max_retries, disk, attempt, getCount, calls, preInvalid,
                    waited, notMainVars >>

\* lines 276-278 and the next iteration of the for loop
Backoff ==
    /\ pc = "backoff"
    /\ attempt' = attempt + 1
    /\ waited' = waited + BackoffSeconds(attempt, max_retries)
    /\ pc' = "loop"
    /\ UNCHANGED << rec, max_retries, disk, getCount, ret, calls, preInvalid,
                    lastVal, wroteSinceVal, notMainVars >>

\* the caller receives the result
Finish ==
    /\ pc = "done"
    /\ pc' = "idle"
    /\ UNCHANGED << rec, max_retries, disk, attempt, getCount, ret, calls,
                    preInvalid, lastVal, wroteSinceVal, waited, notMainVars >>

Next ==
    \/ Call
    \/ LoopHead
    \/ PreCheck
    \/ HttpGet
    \/ WriteFile
    \/ PostValidate
    \/ Backoff
    \/ Finish

Spec == InitMain /\ [][Next]_vars

----------------------------------------------------------------------------
(* Properties of auto_correct_download, checked under Spec *)

\* the content of the file contradicts the record's declared size or hash
ContentMismatch(file, software_info) ==
    \/ /\ ~IsNone(get_size(software_info))
       /\ file.size # Val(get_size(software_info))
    \/ /\ HashGiven(software_info.hash)
       /\ Lower(file.digest) # Lower(Val(software_info.hash))

\* C1: one call of auto_correct_download issues at most max_retries HTTP GET
\* requests.
C1_GetsBounded == getCount <= max_retries

\* the last permitted GET of a call has been issued
C1_Witness ==
    /\ max_retries = MaxRetriesBound
    /\ getCount = max_retries
    /\ pc = "write"

\* C2: when the HTTP GET of an attempt is about to be issued, the file that
\* this attempt found and that failed validation has been deleted; and a
\* pre-existing file whose content contradicts the record's size or hash is
\* never the ground of a success, on the first call or on a later one.
C2_StaleFileDeleted ==
    /\ (pc = "get" /\ preInvalid) => IsNone(disk)
    /\ (pc = "done" /\ Val(ret) = Return(TRUE, MsgIntact))
          => /\ ~IsNone(disk)
             /\ ~ContentMismatch(Val(disk), rec)
             /\ ~preInvalid

\* second invocation after a failed one: the invalid file left behind has
\* been validated, rejected and removed, and the GET is about to be issued
C2_Witness ==
    /\ calls = 2
    /\ ret = Some(Return(FALSE, MsgExhausted))
    /\ pc = "get"
    /\ preInvalid
    /\ attempt = 0

\* C3: when auto_correct_download returns success the target file exists, and
\* the last thing done to it was a validate_file_integrity with the record's
\* hash and size that returned ok; nothing was written after it.
C3_SuccessValidated ==
    (pc = "done" /\ Val(ret).kind = "return" /\ Val(ret).ok)
        => /\ ~IsNone(disk)
           /\ ~IsNone(lastVal)
           /\ Val(lastVal).res = Return(TRUE, MsgIntact)
           /\ Val(lastVal).file = disk
           /\ Val(lastVal).hash = rec.hash
           /\ Val(lastVal).size = get_size(rec)
           /\ ~wroteSinceVal

\* success after a download, for a record that declares both hash and size
C3_Witness ==
    /\ pc = "done"
    /\ ret = Some(Return(TRUE, MsgCorrected))
    /\ getCount > 0
    /\ HashGiven(rec.hash)
    /\ ~IsNone(get_size(rec))

\* C12: a target file that exists and passes validation at the start of an
\* attempt ends the call with success in that attempt; no HTTP GET is issued
\* and the file is neither deleted nor modified.
C12_ValidFileKept ==
    [][ (pc = "precheck" /\ ~IsNone(lastVal') /\ Val(lastVal').res.ok)
          => /\ pc' = "done"
             /\ ret' = Some(Return(TRUE, MsgIntact))
             /\ disk' = disk
             /\ getCount' = getCount ]_vars

\* an existing file matching the declared hash and size was accepted at once
C12_Witness ==
    /\ pc = "done"
    /\ ret = Some(Return(TRUE, MsgIntact))
    /\ getCount = 0
    /\ attempt = 0
    /\ HashGiven(rec.hash)
    /\ ~IsNone(get_size(rec))

\* C13: a call in which no attempt yields a valid file returns
\* (False, message stating max_retries) after exactly max_retries attempts,
\* and with max_retries = 0 without any attempt.
C13_ExhaustedResult ==
    (pc = "done" /\ ~(Val(ret).kind = "return" /\ Val(ret).ok))
        => /\ ret = Some(Return(FALSE, MsgExhausted))
           /\ attempt = max_retries
           /\ max_retries = 0 => getCount = 0

\* C14: no exception escapes auto_correct_download; every call ends by
\* returning a (success, message) pair.
C14_NoEscape ==
    pc = "done" => Val(ret).kind = "return"

\* C19 (as stated): the total wait of a fully failed call is
\* 2^(max_retries-1) - 1 seconds, i.e. 2 * (wait + 1) = 2^max_retries.
C19_Original ==
    (pc = "done" /\ ret = Some(Return(FALSE, MsgExhausted)))
        => 2 * (waited + 1) = 2 ^ max_retries

\* C19 (amended): before attempt k+1 the call has slept 2^j seconds after
\* each failed attempt j <= k, whatever made the attempt fail; nothing is
\* slept after the last attempt, so a fully failed call has waited
\* 2^(max_retries-1) - 1 seconds when max_retries >= 1 and 0 seconds when
\* max_retries = 0.
C19_Backoff ==
    /\ pc \in { "precheck", "get", "write", "postval", "backoff" }
          => waited = 2 ^ attempt - 1
    /\ (pc = "done" /\ ret = Some(Return(FALSE, MsgExhausted)))
          => waited = IF max_retries = 0 THEN 0 ELSE 2 ^ (max_retries - 1) - 1

\* a call with the largest max_retries failed in every attempt
C19_Witness ==
    /\ pc = "done"
    /\ ret = Some(Return(FALSE, MsgExhausted))
    /\ max_retries = MaxRetriesBound
    /\ getCount > 0
    /\ waited = 2 ^ (MaxRetriesBound - 1) - 1

----------------------------------------------------------------------------
(* Specification SpecBatch: SoftwareDownloader.download_software           *)

MaxBatch == 2             \* software_list holds at most MaxBatch entries

MsgUnknown == "software info does not exist"     \* "软件信息不存在"
MsgPath == "path not writable"                   \* path_message

BatchNames == { "A", "B" }
BatchRecords == [ named : BOOLEAN ]
BatchLists == UNION { [ 1..n -> BatchNames ] : n \in 0..MaxBatch }
Catalogs == UNION { [ S -> BatchRecords ] : S \in SUBSET BatchNames }

\* what auto_correct_download(software_info, download_path) hands back with
\* the default max_retries = 3
AutoCorrectOutcomes(r) ==
    IF ~r.named
    THEN { Raise }
    ELSE { Return(TRUE, MsgIntact), Return(TRUE, MsgCorrected),
           Return(FALSE, MsgExhausted) }

\* the outcomes used by SpecBatch are those Spec produces
AutoCorrectOutcomesSound ==
    (pc = "done" /\ max_retries >= 1) => Val(ret) \in AutoCorrectOutcomes(rec)

\* a (success, message) pair
Pair(ok, msg) == [ ok |-> ok, msg |-> msg ]

\* results[name] = value
Put(m, name, value) ==
    [ n \in DOMAIN m \cup { name } |-> IF n = name THEN value ELSE m[n] ]

BatchReturn(m) == [ kind |-> "return", map |-> m ]

InitBatch ==
    /\ b_list \in BatchLists
    /\ b_data \in Catalogs
    /\ b_path \in BOOLEAN
    /\ b_cb \in BOOLEAN
    /\ b_pc = "start"
    /\ b_i = 1
    /\ b_results = << >>
    /\ b_completed = 0
    /\ b_log = << >>
    /\ b_ret = None
    /\ ValIdle
    /\ GenIdle
    /\ MainIdle
    /\ WizIdle
    /\ EnhIdle
    /\ RepIdle
    /\ PairIdle
    /\ CatIdle
    /\ RevIdle
    /\ SelIdle

\* lines 351-360: the path check; an unusable path ends the call
BatchStart ==
    /\ b_pc = "start"
    /\ IF b_path
       THEN /\ b_pc' = "loop"
            /\ b_ret' = b_ret
       ELSE /\ b_pc' = "done"
            /\ b_ret' = Some(BatchReturn([ n \in Range(b_list) |-> Pair(FALSE, MsgPath) ]))
    /\ UNCHANGED << b_list, b_data, b_path, b_cb, b_i, b_results, b_completed,
                    b_log, notBatchVars >>

\* lines 363-365: a name that software_data does not hold
BatchUnknown ==
    /\ b_pc = "loop"
    /\ b_i <= Len(b_list)
    /\ b_list[b_i] \notin DOMAIN b_data
    /\ b_results' = Put(b_results, b_list[b_i], Pair(FALSE, MsgUnknown))
    /\ b_i' = b_i + 1
    /\ UNCHANGED << b_list, b_data, b_path, b_cb, b_pc, b_completed, b_log,
                    b_ret, notBatchVars >>

\* lines 367-385: one entry handed to auto_correct_download
BatchItem ==
    /\ b_pc = "loop"
    /\ b_i <= Len(b_list)
    /\ b_list[b_i] \in DOMAIN b_data
    /\ \E o \in AutoCorrectOutcomes(b_data[b_list[b_i]]) :
          IF o.kind = "raise"
          THEN /\ b_pc' = "done"
               /\ b_ret' = Some(Raise)
               /\ UNCHANGED << b_i, b_results, b_completed, b_log >>
          ELSE /\ b_results' = Put(b_results, b_list[b_i], Pair(o.ok, o.reason))
               /\ b_completed' = b_completed + 1
               /\ b_log' = IF b_cb
                           THEN Append(b_log,
                                  [ completed |-> b_completed',
                                    total |-> Len(b_list),
                                    name |-> b_list[b_i],
                                    success |-> o.ok,
                                    recorded |-> b_list[b_i] \in DOMAIN b_results' ])
                           ELSE b_log
               /\ b_i' = b_i + 1
               /\ UNCHANGED << b_pc, b_ret >>
    /\ UNCHANGED << b_list, b_data, b_path, b_cb, notBatchVars >>

\* line 387: return results
BatchFinish ==
    /\ b_pc = "loop"
    /\ b_i > Len(b_list)
    /\ b_pc' = "done"
    /\ b_ret' = Some(BatchReturn(b_results))
    /\ UNCHANGED << b_list, b_data, b_path, b_cb, b_i, b_results, b_completed,
                    b_log, notBatchVars >>

NextBatch == BatchStart \/ BatchUnknown \/ BatchItem \/ BatchFinish

SpecBatch == InitBatch /\ [][NextBatch]_vars

\* every step of download_software is eventually taken
SpecBatchFair == SpecBatch /\ WF_vars(NextBatch)

Returned == b_pc = "done" /\ Val(b_ret).kind = "return"

\* C15: download_software returns a map whose key set is exactly the names of
\* software_list, each mapped to a (success, message) pair, in every case
C15_KeySet ==
    b_pc = "done"
        => /\ Val(b_ret).kind = "return"
           /\ DOMAIN Val(b_ret).map = Range(b_list)
           /\ \A n \in Range(b_list) : Val(b_ret).map[n].ok \in BOOLEAN

\* C16: once entry k has failed, every later entry is still processed and the
\* batch returns
C16_LaterItemsProcessed ==
    \A k \in 1..(MaxBatch + 1) :
        (/\ b_pc = "loop"
         /\ b_i = k + 1
         /\ ~b_results[b_list[k]].ok)
            ~> (Returned /\ b_i = Len(b_list) + 1)

\* C17: a supplied callback is invoked exactly once for every entry, in order,
\* after the entry's result is recorded, and the last invocation reports
\* completed_count = total_count
C17_CallbackEachEntry ==
    (Returned /\ b_cb)
        => /\ Len(b_log) = Len(b_list)
           /\ \A k \in 1..Len(b_log) :
                 /\ b_log[k].name = b_list[k]
                 /\ b_log[k].recorded
           /\ Len(b_log) > 0 => b_log[Len(b_log)].completed = b_log[Len(b_log)].total

----------------------------------------------------------------------------
(* Specification SpecWizard: the download progress page of the V3 wizard,  *)
(* its _perform_download worker threads and the Tk event loop.  Widgets    *)
(* created for the items live in download_details_frame; a generation of   *)
(* them ends when start_download_process destroys the children of that     *)
(* frame or when show_page destroys the children of content_frame.         *)

MaxItems == 1             \* selected_software holds the items 1..MaxItems
MaxWorkers == 2           \* start_download_process runs at most MaxWorkers times
MaxVisits == 2            \* the download progress page is shown at most MaxVisits times

Items == 1..MaxItems

\* the generation of item widgets that exists now
Gen == Len(w_destroyed)

\* winfo_exists() of an item widget of generation g
Alive(g) == w_page = "progress" /\ g = Gen

\* what destroyed the item widgets of generation g
Cause(g) == IF g < Gen THEN w_destroyed[g + 1] ELSE "page"

Event(op, item, gen, late) == [ op |-> op, item |-> item, gen |-> gen, late |-> late ]

\* lambda: self._safe_update_status(...)
EvStatus == Event("status", 0, 0, FALSE)

\* lambda: self._create_download_item(sn, inf), one per selected item
RECURSIVE EvCreate(_)
EvCreate(k) ==
    IF k > MaxItems THEN << >> ELSE << Event("create", k, 0, FALSE) >> \o EvCreate(k + 1)

\* the two updates progress_callback schedules for the widgets that the
\* attributes of item k refer to: progress_bar.set and status_label.configure
EvItem(k) ==
    IF IsNone(w_attr[k])
    THEN << >>
    ELSE << Event("bar", k, Val(w_attr[k]), ~Alive(Val(w_attr[k]))),
            Event("label", k, Val(w_attr[k]), ~Alive(Val(w_attr[k]))) >>

Error(e) == [ op |-> e.op, cause |-> Cause(e.gen), late |-> e.late ]

\* starts of start_download_process that have run or are pending
Starts == Len(w_workers) + (IF w_timer THEN 1 ELSE 0)

\* the times the download progress page has been shown
Visits == 1 + Cardinality({ g \in 1..Len(w_destroyed) : w_destroyed[g] = "page" })
           - (IF w_page = "other" THEN 1 ELSE 0)

InitWizard ==
    /\ w_page = "progress"
    /\ w_completed = FALSE
    /\ w_timer = TRUE
    /\ w_destroyed = << >>
    /\ w_attr = [ k \in Items |-> None ]
    /\ w_queue = << >>
    /\ w_workers = << >>
    /\ w_errors = { }
    /\ ValIdle
    /\ GenIdle
    /\ MainIdle
    /\ BatchIdle
    /\ EnhIdle
    /\ RepIdle
    /\ PairIdle
    /\ CatIdle
    /\ RevIdle
    /\ SelIdle

\* start_download_process: configures overall_status, destroys the children
\* of download_details_frame, starts a thread
StartDownloadProcess ==
    IF w_page = "progress"
    THEN /\ w_destroyed' = Append(w_destroyed, "retry")
         /\ w_workers' = Append(w_workers, [ pos |-> "create", i |-> 1 ])
         /\ w_errors' = w_errors
    ELSE /\ w_errors' = w_errors \cup { [ op |-> "start", cause |-> "page", late |-> TRUE ] }
         /\ UNCHANGED << w_destroyed, w_workers >>

\* the timer set by show_download_progress_page fires
TimerFires ==
    /\ w_timer
    /\ w_timer' = FALSE
    /\ StartDownloadProcess
    /\ UNCHANGED << w_page, w_completed, w_attr, w_queue, notWizVars >>

\* the button "重新下载"
ClickRetry ==
    /\ w_page = "progress"
    /\ Starts < MaxWorkers
    /\ StartDownloadProcess
    /\ UNCHANGED << w_page, w_completed, w_timer, w_attr, w_queue, notWizVars >>

\* the button "下一步": show_page(VALIDATION), allowed by can_proceed_to_page
\* when download_completed is set
ClickNext ==
    /\ w_page = "progress"
    /\ w_completed
    /\ w_page' = "other"
    /\ w_destroyed' = Append(w_destroyed, "page")
    /\ UNCHANGED << w_completed, w_timer, w_attr, w_queue, w_workers, w_errors,
                    notWizVars >>

\* the user walks the wizard again up to show_page(DOWNLOAD_PROGRESS)
EnterProgress ==
    /\ w_page = "other"
    /\ Starts < MaxWorkers
    /\ Visits < MaxVisits
    /\ w_page' = "progress"
    /\ w_timer' = TRUE
    /\ UNCHANGED << w_completed, w_destroyed, w_attr, w_queue, w_workers,
                    w_errors, notWizVars >>

\* _perform_download, lines 2136-2140: schedule the creation of the item rows
WorkerCreate(w) ==
    /\ w_workers[w].pos = "create"
    /\ w_queue' = w_queue \o EvCreate(1)
    /\ w_workers' = [ w_workers EXCEPT ![w].pos = "batch" ]
    /\ UNCHANGED << w_page, w_completed, w_timer, w_destroyed, w_attr, w_errors,
                    notWizVars >>

\* progress_callback, lines 2124-2134, run by the worker after item i
WorkerItem(w) ==
    /\ w_workers[w].pos = "batch"
    /\ w_workers[w].i <= MaxItems
    /\ w_queue' = (w_queue \o << EvStatus >>) \o EvItem(w_workers[w].i)
    /\ w_workers' = [ w_workers EXCEPT ![w].i = @ + 1 ]
    /\ UNCHANGED << w_page, w_completed, w_timer, w_destroyed, w_attr, w_errors,
                    notWizVars >>

\* lines 2143-2146: the batch returned
WorkerFinish(w) ==
    /\ w_workers[w].pos = "batch"
    /\ w_workers[w].i > MaxItems
    /\ w_queue' = Append(w_queue, EvStatus)
    /\ w_completed' = TRUE
    /\ w_workers' = [ w_workers EXCEPT ![w].pos = "done" ]
    /\ UNCHANGED << w_page, w_timer, w_destroyed, w_attr, w_errors, notWizVars >>

\* the event loop runs the oldest scheduled callback
ProcessEvent ==
    /\ w_queue # << >>
    /\ w_queue' = Tail(w_queue)
    /\ LET e == Head(w_queue) IN
         CASE e.op = "status" ->
                \* _safe_update_status: winfo_exists() guard inside try/except
                UNCHANGED << w_attr, w_errors >>
           [] e.op = "create" ->
                \* _create_download_item: CTkFrame(self.download_details_frame)
                IF w_page = "progress"
                THEN /\ w_attr' = [ w_attr EXCEPT ![e.item] = Some(Gen) ]
                     /\ w_errors' = w_errors
                ELSE /\ w_errors' = w_errors \cup { [ op |-> "create", cause |-> "page", late |-> FALSE ] }
                     /\ w_attr' = w_attr
           [] OTHER ->
                \* progress_bar.set / status_label.configure, called directly
                /\ w_errors' = IF Alive(e.gen) THEN w_errors ELSE w_errors \cup { Error(e) }
                /\ w_attr' = w_attr
    /\ UNCHANGED << w_page, w_completed, w_timer, w_destroyed, w_workers, notWizVars >>

NextWizard ==
    \/ TimerFires
    \/ ClickRetry
    \/ ClickNext
    \/ EnterProgress
    \/ \E w \in 1..Len(w_workers) : WorkerCreate(w)
    \/ \E w \in 1..Len(w_workers) : WorkerItem(w)
    \/ \E w \in 1..Len(w_workers) : WorkerFinish(w)
    \/ ProcessEvent

SpecWizard == InitWizard /\ [][NextWizard]_vars

\* an update scheduled by progress_callback raised in the event loop because
\* a page change had destroyed its widget
CallbackErrors == { e \in w_errors : e.op \in { "bar", "label" } /\ e.cause = "page" }

\* C18: no UI update scheduled by the progress callback raises an error when
\* a page change has destroyed its target widget
C18_UpdatesTolerateDestroy == CallbackErrors = { }

\* the same for updates scheduled after the widget was destroyed
NoLateCallbackError == \A e \in CallbackErrors : ~e.late

\* the _perform_download threads that have not returned
ActiveWorkers == { w \in 1..Len(w_workers) : w_workers[w].pos # "done" }

\* C26: at most one _perform_download worker thread is active at a time
C26_OneWorker == Cardinality(ActiveWorkers) <= 1

\* C27: the VALIDATION page is never shown while a download worker thread is
\* still running
C27_NoValidationWhileDownloading ==
    [][(w_page = "progress" /\ w_page' = "other") => ActiveWorkers = { }]_vars

----------------------------------------------------------------------------
(* Specification SpecEnhanced: the download button of the enhanced GUI,    *)
(* start_download and the threads it starts.  The handlers of the main     *)
(* thread run one at a time; while a dialog is open no button is pressed.  *)

MaxRequests == 3          \* presses of the download button
MaxFiles == 2             \* entries of selected_software

\* line 924: if self.is_downloading
Busy_Never(flag) == FALSE

Busy(flag) == flag

\* a thread that runs download_thread for n files
ThreadStart(n) == [ pos |-> "loop", i |-> 1, n |-> n, ok |-> 0 ]

Running == { t \in 1..Len(e_threads) : e_threads[t].pos # "dead" }
Downloading == { t \in 1..Len(e_threads) : e_threads[t].pos = "loop" }

\* the completion notice of some thread is showing
NoticeOpen == \E t \in 1..Len(e_threads) : e_threads[t].pos = "notice"

InitEnhanced ==
    /\ is_downloading = FALSE
    /\ e_threads = << >>
    /\ e_modal = FALSE
    /\ e_requests = 0
    /\ e_refused = 0
    /\ ValIdle
    /\ GenIdle
    /\ MainIdle
    /\ BatchIdle
    /\ WizIdle
    /\ RepIdle
    /\ PairIdle
    /\ CatIdle
    /\ RevIdle
    /\ SelIdle

\* entries of software_data.json: populate_tree reads 'name' of every entry,
\* 'url' is read by get_software_url only; url is None for an entry
\* without that key
EnhancedData ==
    { [ name |-> "A", url |-> Some("http://h/a.exe") ],
      [ name |-> "B", url |-> Some("http://h/b.zip") ],
      [ name |-> "C", url |-> Some("builtin") ],
      [ name |-> "D", url |-> Some("") ],
      [ name |-> "E", url |-> None ] }

\* names selected_software can hold: those of the tree and one restored from
\* config.json that the data no longer has
EnhancedNames == { e.name : e \in EnhancedData } \cup { "Z" }

\* get_software_url: software['url'] of the entry of that name (KeyError
\* without the key), None without such an entry
get_software_url(software_name) ==
    IF \E e \in EnhancedData : e.name = software_name
    THEN LET e == CHOOSE e \in EnhancedData : e.name = software_name
         IN  IF IsNone(e.url)
             THEN [ raised |-> TRUE, url |-> None ]
             ELSE [ raised |-> FALSE, url |-> e.url ]
    ELSE [ raised |-> FALSE, url |-> None ]

\* lines 944-948 raise KeyError for some entry of the selection
UrlLookupRaises(sel) == \E n \in sel : get_software_url(n).raised

\* lines 944-948: if url and url != 'builtin'
valid_software(sel) ==
    { n \in sel : LET r == get_software_url(n)
                  IN  ~r.raised /\ ~IsNone(r.url) /\ Val(r.url) \notin { "", "builtin" } }

\* download_software followed by start_download: sel is selected_software,
\* dir tells whether askdirectory returned a directory
Request ==
    /\ ~e_modal
    /\ ~NoticeOpen
    /\ e_requests < MaxRequests
    /\ e_requests' = e_requests + 1
    /\ \E sel \in { x \in SUBSET EnhancedNames : Cardinality(x) <= MaxFiles } :
       \E dir \in BOOLEAN :
          IF sel = { }
          THEN /\ e_modal' = TRUE
               /\ UNCHANGED << is_downloading, e_threads, e_refused >>
          ELSE IF Busy(is_downloading)
          THEN /\ e_modal' = TRUE
               /\ e_refused' = e_refused + 1
               /\ UNCHANGED << is_downloading, e_threads >>
          ELSE IF ~dir
          THEN UNCHANGED << is_downloading, e_threads, e_modal, e_refused >>
          ELSE IF UrlLookupRaises(sel)
          THEN \* line 940 has set the flag; the KeyError ends the handler
               /\ is_downloading' = TRUE
               /\ UNCHANGED << e_threads, e_modal, e_refused >>
          ELSE IF valid_software(sel) = { }
          THEN \* lines 940, 950-953: the flag is set and cleared again
               /\ is_downloading' = FALSE
               /\ e_modal' = TRUE
               /\ UNCHANGED << e_threads, e_refused >>
          ELSE /\ is_downloading' = TRUE
               /\ e_threads' = Append(e_threads, ThreadStart(Cardinality(valid_software(sel))))
               /\ e_modal' = TRUE
               /\ e_refused' = e_refused
    /\ UNCHANGED notEnhVars

\* the user closes the messagebox of the main thread
Dismiss ==
    /\ e_modal
    /\ e_modal' = FALSE
    /\ UNCHANGED << is_downloading, e_threads, e_requests, e_refused, notEnhVars >>

\* lines 959-1017: one file, downloaded or failed
ThreadFile(t) ==
    /\ e_threads[t].pos = "loop"
    /\ e_threads[t].i <= e_threads[t].n
    /\ \E success \in BOOLEAN :
          e_threads' = [ e_threads EXCEPT ![t].i = @ + 1,
                                          ![t].ok = IF success THEN @ + 1 ELSE @ ]
    /\ UNCHANGED << is_downloading, e_modal, e_requests, e_refused, notEnhVars >>

\* line 1019: self.is_downloading = False
ThreadClear(t) ==
    /\ e_threads[t].pos = "loop"
    /\ e_threads[t].i > e_threads[t].n
    /\ is_downloading' = FALSE
    /\ e_threads' = [ e_threads EXCEPT ![t].pos = "tail" ]
    /\ UNCHANGED << e_modal, e_requests, e_refused, notEnhVars >>

\* lines 1020-1024: progress_var.set(100), status_var.set, messagebox.showinfo
ThreadNotice(t) ==
    /\ e_threads[t].pos = "tail"
    /\ e_threads' = [ e_threads EXCEPT ![t].pos = "notice" ]
    /\ UNCHANGED << is_downloading, e_modal, e_requests, e_refused, notEnhVars >>

\* the user closes the completion notice; the thread ends
ThreadEnd(t) ==
    /\ e_threads[t].pos = "notice"
    /\ e_threads' = [ e_threads EXCEPT ![t].pos = "dead" ]
    /\ UNCHANGED << is_downloading, e_modal, e_requests, e_refused, notEnhVars >>

NextEnhanced ==
    \/ Request
    \/ Dismiss
    \/ \E t \in 1..Len(e_threads) : ThreadFile(t)
    \/ \E t \in 1..Len(e_threads) : ThreadClear(t)
    \/ \E t \in 1..Len(e_threads) : ThreadNotice(t)
    \/ \E t \in 1..Len(e_threads) : ThreadEnd(t)

SpecEnhanced == InitEnhanced /\ [][NextEnhanced]_vars

\* the user closes every dialog and every thread gets to run
EnhancedProgress ==
    \/ Dismiss
    \/ \E t \in 1..Len(e_threads) : ThreadFile(t)
    \/ \E t \in 1..Len(e_threads) : ThreadClear(t)
    \/ \E t \in 1..Len(e_threads) : ThreadNotice(t)
    \/ \E t \in 1..Len(e_threads) : ThreadEnd(t)

SpecEnhancedFair == SpecEnhanced /\ WF_vars(EnhancedProgress)

\* C20 as stated: at most one download thread is running at a time
C20_Original == Cardinality(Running) <= 1

\* C20: while is_downloading is true no step starts a thread, and at most one
\* thread is inside its download loop at a time
C20_OneDownloader ==
    [][ /\ is_downloading => Len(e_threads') = Len(e_threads)
        /\ Cardinality(Downloading') <= 1 ]_vars

C20_Witness ==
    /\ is_downloading
    /\ e_refused > 0
    /\ Cardinality(Downloading) = 1
    /\ Cardinality(Running) = 2

\* C29: every batch that sets is_downloading to true eventually sets it back
\* to false
C29_FlagEventuallyCleared == is_downloading ~> ~is_downloading

\* the same for the batches whose URL lookup raised nothing: a thread was
\* started or is_downloading is false
NoLockAfterThreadStart ==
    (is_downloading /\ Downloading # { }) ~> ~is_downloading

----------------------------------------------------------------------------
(* Specification SpecRepair: the validation page of the V3 wizard and its  *)
(* automatic repair (start_validation, _update_validation_results,         *)
(* _perform_auto_repair, _perform_revalidation).                           *)

MaxSelected == 2          \* selected_software holds 1..MaxSelected entries
MaxValidations == 3       \* runs of _perform_validation

\* the methods of class SoftwareManagerV3
CoreManagerMethods ==
    { "_generate_filename", "_load_software_data", "get_software_list",
      "get_software_info", "validate_download_path", "validate_existing_files",
      "download_selected_software", "get_config", "set_config",
      "get_download_statistics" }

\* line 1385: 'validation_passed': new_files_count >= expected_count
ValidationPassed == r_files >= r_expected

InitRepair ==
    /\ r_core \in BOOLEAN
    /\ r_expected \in 1..MaxSelected
    /\ r_files \in 0..MaxSelected
    /\ r_pc = "validate"
    /\ r_attempted = FALSE
    /\ r_validations = 0
    /\ r_downloads = 0
    /\ ValIdle
    /\ GenIdle
    /\ MainIdle
    /\ BatchIdle
    /\ WizIdle
    /\ EnhIdle
    /\ PairIdle
    /\ CatIdle
    /\ RevIdle
    /\ SelIdle

\* _perform_validation followed by _update_validation_results
ValidationBody ==
    /\ r_validations' = r_validations + 1
    /\ IF ~ValidationPassed /\ ~r_attempted
       THEN /\ r_attempted' = TRUE
            /\ r_pc' = "repair"
       ELSE /\ r_attempted' = r_attempted
            /\ r_pc' = "shown"
    /\ UNCHANGED << r_core, r_expected, r_files, r_downloads, notRepVars >>

\* start_validation, 500 ms after the page is shown
StartValidation ==
    /\ r_pc = "validate"
    /\ ValidationBody

\* _perform_revalidation, 2 s after a repair
Revalidation ==
    /\ r_pc = "revalidate"
    /\ ValidationBody

\* start_auto_repair and _perform_auto_repair
AutoRepair ==
    /\ r_pc = "repair"
    /\ IF r_core
       THEN IF "download_software" \in CoreManagerMethods
            THEN \E success \in BOOLEAN : \E f \in 0..MaxSelected :
                    /\ r_downloads' = r_downloads + 1
                    /\ r_files' = f
                    /\ r_pc' = IF success THEN "revalidate" ELSE "failed"
            ELSE \* AttributeError, caught at line 1517
                 /\ r_pc' = "failed"
                 /\ UNCHANGED << r_downloads, r_files >>
       ELSE \* the simulated re-download
            /\ r_pc' = "revalidate"
            /\ UNCHANGED << r_downloads, r_files >>
    /\ UNCHANGED << r_core, r_expected, r_attempted, r_validations, notRepVars >>

\* the user comes back to the validation page; files may have changed
ShowValidationPage ==
    /\ r_pc \in { "shown", "failed" }
    /\ r_validations < MaxValidations
    /\ r_pc' = "validate"
    /\ r_files' \in 0..MaxSelected
    /\ UNCHANGED << r_core, r_expected, r_attempted, r_validations, r_downloads,
                    notRepVars >>

NextRepair == StartValidation \/ Revalidation \/ AutoRepair \/ ShowValidationPage

SpecRepair == InitRepair /\ [][NextRepair]_vars

\* the scheduled timers fire and the threads run
SpecRepairFair ==
    SpecRepair /\ WF_vars(StartValidation) /\ WF_vars(Revalidation) /\ WF_vars(AutoRepair)

\* C21: a failed validation with no earlier repair leads, with the core
\* manager, to a re-download through it
C21_AutoRepairRedownloads == (r_pc = "repair" /\ r_core) ~> (r_downloads > 0)

----------------------------------------------------------------------------
(* Specification SpecPaths: two records of one catalog, both resolved by   *)
(* auto_correct_download to download_path / _generate_filename(record).    *)

PairNames == { Some(<< "A", "p", "p" >>), Some(<< "a", "/", "b" >>), Some(<< "a", "_", "b" >>) }
PairFilenames == { None, Some(<< "f", ".", "e", "x", "e" >>) }
PairUrls ==
    { None,
      Some(<< "h", "t", "t", "p", ":", "/", "/", "h", "/", "s", ".", "e", "x", "e" >>),
      Some(<< "h", "t", "t", "p", ":", "/", "/", "g", "/", "s", ".", "e", "x", "e" >>),
      Some(<< "h", "t", "t", "p", ":", "/", "/", "h", "/", "d", "l" >>) }
PairInfos == [ filename : PairFilenames, name : PairNames, url : PairUrls ]

InitPaths ==
    /\ p_a \in PairInfos
    /\ p_b \in PairInfos
    /\ p_a.name # p_b.name
    /\ p_res = None
    /\ ValIdle
    /\ GenIdle
    /\ MainIdle
    /\ BatchIdle
    /\ WizIdle
    /\ EnhIdle
    /\ RepIdle
    /\ CatIdle
    /\ RevIdle
    /\ SelIdle

\* line 227-228 for each record: filename = self._generate_filename(software_info)
ResolveBoth ==
    /\ p_res = None
    /\ p_res' = Some(<< generate_filename(p_a), generate_filename(p_b) >>)
    /\ UNCHANGED << p_a, p_b, notPairVars >>

NextPaths == ResolveBoth

SpecPaths == InitPaths /\ [][NextPaths]_vars

\* C22: two records with different names never resolve to the same target
\* file path
C22_DistinctPaths == ~IsNone(p_res) => Val(p_res)[1] # Val(p_res)[2]

----------------------------------------------------------------------------
(* Further properties of Spec (auto_correct_download) *)

\* the file at the target path passes validate_file_integrity for this record
\* when no I/O operation fails
TargetValid == validate_file_integrity(disk, rec.hash, get_size(rec), IoOk).ok

Failed == pc = "done" /\ Val(ret).kind = "return" /\ ~Val(ret).ok

\* C23: when auto_correct_download returns failure, the target path holds no
\* file that fails validation
C23_NoInvalidFileLeft == Failed => (IsNone(disk) \/ TargetValid)

\* the same for calls that issued a download in every attempt
NoInvalidDownloadLeft ==
    (Failed /\ getCount = max_retries /\ max_retries > 0)
        => (IsNone(disk) \/ TargetValid)

----------------------------------------------------------------------------
(* Specification SpecCatalog: an entry of software_data.json is turned     *)
(* into a record by load_software_data of the V3 wizard; the file          *)
(* downloaded for it is validated by auto_correct_download.                *)

\* 'size' and 'checksum' of an entry: key missing, null, or a value
CatalogEntries == [ size : SizeFields, checksum : { None, Some(<< "a", "b" >>) } ]

\* dict.get(key, default) on an optional field: the default only replaces a
\* missing key
GetOr(field, default) == IF IsNone(field) THEN default ELSE Val(field)

\* load_software_data, lines 301-311: the record built for an entry; it gets
\* 'size': software.get('size', 0) and a 'checksum' key, but no 'hash' key
load_software_data(entry) ==
    [ named |-> TRUE,
      hash |-> None,
      size |-> Some(GetOr(entry.size, Some(0))),
      checksum |-> GetOr(entry.checksum, << >>) ]

InitCatalog ==
    /\ c_entry \in CatalogEntries
    /\ c_body \in FileContents
    /\ c_io \in IoOutcomes
    /\ c_res = None
    /\ ValIdle
    /\ GenIdle
    /\ MainIdle
    /\ BatchIdle
    /\ WizIdle
    /\ EnhIdle
    /\ RepIdle
    /\ PairIdle
    /\ RevIdle
    /\ SelIdle

\* lines 251-263 of auto_correct_download for the loaded record: the body is
\* written to file_path and validated against the record's hash and size
DownloadAndValidate ==
    /\ c_res = None
    /\ LET software_info == load_software_data(c_entry)
       IN  c_res' = Some(validate_file_integrity(Some(c_body), software_info.hash,
                                                 get_size(software_info), c_io))
    /\ UNCHANGED << c_entry, c_body, c_io, notCatVars >>

NextCatalog == DownloadAndValidate

SpecCatalog == InitCatalog /\ [][NextCatalog]_vars

\* C24: for an entry that declares no size, the download is never failed with
\* a size mismatch
C24_NoSizeCheckWithoutSize ==
    (~IsNone(c_res) /\ IsNone(c_entry.size)) => Val(c_res).reason # MsgSizeMismatch

----------------------------------------------------------------------------
(* Specification SpecRevalidate: a record is downloaded by                 *)
(* auto_correct_download and later checked, with the file unchanged, by     *)
(* validate_existing_downloads.  No I/O operation fails.                   *)

MsgBadType == "unsupported file type"      \* "不支持的文件类型: ..."
MsgZeroSize == "file size is 0"            \* "文件大小为0"
MsgBadHeader == "invalid PE header"        \* "无效的PE文件头"
MsgExecutable == "executable valid"        \* "可执行文件有效"

\* line 154
valid_extensions ==
    { << ".", "e", "x", "e" >>, << ".", "m", "s", "i" >>, << ".", "z", "i", "p" >>,
      << ".", "r", "a", "r" >>, << ".", "7", "z" >> }

\* pathlib: PurePath.suffix of a file name
Suffix(name) ==
    LET i == LastIndex(name, ".")
    IN  IF 1 < i /\ i < Len(name) THEN SubSeq(name, i, Len(name)) ELSE << >>

\* validate_executable, lines 147-172, on an existing file
validate_executable(name, file) ==
    IF Lower(Suffix(name)) \notin valid_extensions THEN Pair(FALSE, MsgBadType)
    ELSE IF file.size = 0 THEN Pair(FALSE, MsgZeroSize)
    ELSE IF Lower(Suffix(name)) = << ".", "e", "x", "e" >> /\ ~file.mz
        THEN Pair(FALSE, MsgBadHeader)
    ELSE Pair(TRUE, MsgExecutable)

\* the entry validate_existing_downloads records for one software, lines 398-423
validate_existing(software_info, file) ==
    IF IsNone(file)
    THEN Pair(FALSE, MsgNotExist)
    ELSE LET res == validate_file_integrity(file, software_info.hash, software_info.size, IoOk)
         IN  IF res.kind = "return" /\ res.ok
             THEN LET ex == validate_executable(generate_filename(software_info), Val(file))
                  IN  IF ex.ok THEN Pair(TRUE, res.reason) ELSE ex
             ELSE Pair(FALSE, res.reason)

\* files: mz tells whether the first two bytes are b'MZ'
RevFiles ==
    { None } \cup
    { Some(c) : c \in { f \in [ size : 0..MaxFileSize, digest : { << "a", "b" >>, << "c", "d" >> },
                                 mz : BOOLEAN ] : f.mz => f.size > 0 } }

RevInfos ==
    [ filename : { None, Some(<< "s", "e", "t", "u", "p" >>) },
      name : { Some(<< "A", "p", "p" >>) },
      url : { Some(<< "h", "t", "t", "p", ":", "/", "/", "h", "/", "s", ".", "e", "x", "e" >>),
              Some(<< "h", "t", "t", "p", ":", "/", "/", "h", "/", "s", ".", "d", "m", "g" >>),
              Some(<< "h", "t", "t", "p", ":", "/", "/", "h", "/", "d", "l" >>) },
      hash : { None, Some(<< "a", "b" >>) },
      size : ExpectedSizes ]

InitRevalidate ==
    /\ x_info \in RevInfos
    /\ x_file \in RevFiles
    /\ x_dl = None
    /\ x_re = None
    /\ ValIdle
    /\ GenIdle
    /\ MainIdle
    /\ BatchIdle
    /\ WizIdle
    /\ EnhIdle
    /\ RepIdle
    /\ PairIdle
    /\ CatIdle
    /\ SelIdle

\* auto_correct_download returns: success exactly when the last validation of
\* the file at file_path (lines 236-244 or 259-267) passed
DownloadReturns ==
    /\ x_dl = None
    /\ LET res == validate_file_integrity(x_file, x_info.hash, x_info.size, IoOk)
       IN  x_dl' = Some(IF Accepts(res) THEN Return(TRUE, MsgIntact)
                        ELSE Return(FALSE, MsgExhausted))
    /\ UNCHANGED << x_info, x_file, x_re, notRevVars >>

\* validate_existing_downloads runs on the unchanged directory
RevalidateCall ==
    /\ ~IsNone(x_dl)
    /\ x_re = None
    /\ x_re' = Some(validate_existing(x_info, x_file))
    /\ UNCHANGED << x_info, x_file, x_dl, notRevVars >>

NextRevalidate == DownloadReturns \/ RevalidateCall

SpecRevalidate == InitRevalidate /\ [][NextRevalidate]_vars

\* C25: a record for which auto_correct_download returned success is reported
\* valid by validate_existing_downloads when the file has not changed
C25_RevalidationAgrees ==
    (~IsNone(x_re) /\ Val(x_dl).ok) => Val(x_re).ok

----------------------------------------------------------------------------
(* Specification SpecSelection: the pages of the V3 wizard, the handlers   *)
(* of the software selection page and the step flags can_proceed_to_page   *)
(* reads.  The work of the later pages is reduced to the flag it sets.     *)

\* software_data: name |-> category
SoftwareData == [ n \in { "A", "B", "C" } |-> IF n = "C" THEN "tools" ELSE "dev" ]

SoftwareNames == DOMAIN SoftwareData

Categories == { SoftwareData[n] : n \in SoftwareNames }

page_flow ==
    << "WELCOME", "SOFTWARE_SELECTION", "DOWNLOAD_SETTINGS", "CONNECTIVITY_CHECK",
       "DOWNLOAD_PROGRESS", "VALIDATION", "COMPLETION" >>

\* page_flow.index(page)
PageIndex(page) == CHOOSE i \in 1..Len(page_flow) : page_flow[i] = page

can_proceed_to_page(target_page) ==
    IF PageIndex(target_page) <= PageIndex(s_page) THEN TRUE
    ELSE CASE target_page = "DOWNLOAD_SETTINGS" -> s_software_selected
           [] target_page = "CONNECTIVITY_CHECK" -> s_software_selected /\ s_path_set
           [] target_page = "DOWNLOAD_PROGRESS" ->
                s_software_selected /\ s_path_set /\ s_checked
           [] target_page = "VALIDATION" ->
                s_software_selected /\ s_path_set /\ s_checked /\ s_completed
           [] target_page = "COMPLETION" ->
                /\ s_software_selected /\ s_path_set /\ s_checked /\ s_completed
                /\ s_validated
           [] OTHER -> TRUE

\* the buttons whose command is show_page(target), by the page that holds them
PageButtons ==
    { << "WELCOME", "SOFTWARE_SELECTION" >>,
      << "SOFTWARE_SELECTION", "DOWNLOAD_SETTINGS" >>,
      << "DOWNLOAD_SETTINGS", "CONNECTIVITY_CHECK" >>,
      << "CONNECTIVITY_CHECK", "DOWNLOAD_PROGRESS" >>,
      << "CONNECTIVITY_CHECK", "SOFTWARE_SELECTION" >>,
      << "DOWNLOAD_PROGRESS", "VALIDATION" >>,
      << "VALIDATION", "COMPLETION" >> }

InitSelection ==
    /\ s_page = "WELCOME"
    /\ s_selected = { }
    /\ s_software_selected = FALSE
    /\ s_category = None
    /\ s_agreed = FALSE
    /\ s_path_set = FALSE
    /\ s_checked = FALSE
    /\ s_completed = FALSE
    /\ s_validated = FALSE
    /\ ValIdle
    /\ GenIdle
    /\ MainIdle
    /\ BatchIdle
    /\ WizIdle
    /\ EnhIdle
    /\ RepIdle
    /\ PairIdle
    /\ CatIdle
    /\ RevIdle

\* check_agreements: the two check boxes of the welcome page
CheckAgreements(both) ==
    /\ s_page = "WELCOME"
    /\ s_agreed' = both
    /\ UNCHANGED << s_page, s_selected, s_software_selected, s_category, s_path_set,
                    s_checked, s_completed, s_validated, notSelVars >>

\* show_page(target) from a button of the current page; the button of the
\* welcome page is enabled by check_agreements, the back button of the
\* connectivity page is created with the results
ShowPage(target) ==
    /\ << s_page, target >> \in PageButtons
    /\ s_page = "WELCOME" => s_agreed
    /\ (s_page = "CONNECTIVITY_CHECK" /\ target = "SOFTWARE_SELECTION") => s_checked
    /\ can_proceed_to_page(target)
    /\ s_page' = target
    /\ s_category' = IF target = "SOFTWARE_SELECTION" THEN None ELSE s_category
    /\ UNCHANGED << s_selected, s_software_selected, s_agreed, s_path_set, s_checked,
                    s_completed, s_validated, notSelVars >>

\* show_category_software from the category menu
ShowCategory(c) ==
    /\ s_page = "SOFTWARE_SELECTION"
    /\ s_category' = Some(c)
    /\ UNCHANGED << s_page, s_selected, s_software_selected, s_agreed, s_path_set,
                    s_checked, s_completed, s_validated, notSelVars >>

\* toggle_software_selection_new on an item of the category shown
ToggleSelection(n) ==
    /\ s_page = "SOFTWARE_SELECTION"
    /\ s_category = Some(SoftwareData[n])
    /\ s_selected' = IF n \in s_selected THEN s_selected \ { n } ELSE s_selected \cup { n }
    /\ s_software_selected' = (Cardinality(s_selected') > 0)
    /\ UNCHANGED << s_page, s_category, s_agreed, s_path_set, s_checked, s_completed,
                    s_validated, notSelVars >>

\* remove_selected_software from a row of the selected list
RemoveSelected(n) ==
    /\ s_page = "SOFTWARE_SELECTION"
    /\ n \in s_selected
    /\ s_selected' = s_selected \ { n }
    /\ s_software_selected' = (Cardinality(s_selected') > 0)
    /\ UNCHANGED << s_page, s_category, s_agreed, s_path_set, s_checked, s_completed,
                    s_validated, notSelVars >>

clear_selected_list ==
    /\ s_page = "SOFTWARE_SELECTION"
    /\ s_selected' = { }
    /\ s_software_selected' = FALSE
    /\ UNCHANGED << s_page, s_category, s_agreed, s_path_set, s_checked, s_completed,
                    s_validated, notSelVars >>

\* select_all_in_category; without a current category it only warns
select_all_in_category ==
    /\ s_page = "SOFTWARE_SELECTION"
    /\ ~IsNone(s_category)
    /\ s_selected' = s_selected \cup { n \in SoftwareNames : SoftwareData[n] = Val(s_category) }
    /\ s_software_selected' = (Cardinality(s_selected') > 0)
    /\ UNCHANGED << s_page, s_category, s_agreed, s_path_set, s_checked, s_completed,
                    s_validated, notSelVars >>

\* validate_download_path on the download settings page
ValidatePath(valid) ==
    /\ s_page = "DOWNLOAD_SETTINGS"
    /\ s_path_set' = valid
    /\ UNCHANGED << s_page, s_selected, s_software_selected, s_category, s_agreed,
                    s_checked, s_completed, s_validated, notSelVars >>

\* _update_connectivity_results
ConnectivityResults ==
    /\ s_page = "CONNECTIVITY_CHECK"
    /\ s_checked' = TRUE
    /\ UNCHANGED << s_page, s_selected, s_software_selected, s_category, s_agreed,
                    s_path_set, s_completed, s_validated, notSelVars >>

\* _perform_download returns or catches the exception of the batch
DownloadEnds(ok) ==
    /\ s_page = "DOWNLOAD_PROGRESS"
    /\ s_completed' = ok
    /\ UNCHANGED << s_page, s_selected, s_software_selected, s_category, s_agreed,
                    s_path_set, s_checked, s_validated, notSelVars >>

\* _update_validation_results
ValidationResults ==
    /\ s_page = "VALIDATION"
    /\ s_validated' = TRUE
    /\ UNCHANGED << s_page, s_selected, s_software_selected, s_category, s_agreed,
                    s_path_set, s_checked, s_completed, notSelVars >>

\* restart_application from the completion page
restart_application ==
    /\ s_page = "COMPLETION"
    /\ s_selected' = { }
    /\ s_agreed' = FALSE
    /\ s_page' = "WELCOME"
    /\ UNCHANGED << s_software_selected, s_category, s_path_set, s_checked,
                    s_completed, s_validated, notSelVars >>

NextSelection ==
    \/ \E both \in BOOLEAN : CheckAgreements(both)
    \/ \E target \in { page_flow[i] : i \in 1..Len(page_flow) } : ShowPage(target)
    \/ \E c \in Categories : ShowCategory(c)
    \/ \E n \in SoftwareNames : ToggleSelection(n)
    \/ \E n \in SoftwareNames : RemoveSelected(n)
    \/ clear_selected_list
    \/ select_all_in_category
    \/ \E valid \in BOOLEAN : ValidatePath(valid)
    \/ ConnectivityResults
    \/ \E ok \in BOOLEAN : DownloadEnds(ok)
    \/ ValidationResults
    \/ restart_application

SpecSelection == InitSelection /\ [][NextSelection]_vars

\* C28: software_selected is true exactly when selected_software is not empty
C28_FlagMatchesSelection == s_software_selected <=> (s_selected # { })

\* the download settings page and the pages after it are shown only with a
\* selection that is not empty
NoEmptySelectionPastSettings ==
    PageIndex(s_page) >= PageIndex("DOWNLOAD_SETTINGS") => s_selected # { }

====
